---- MODULE Spec2Model ----
(***************************************************************************)
(* Worker-side request dispatch engine of dgfacade.                        *)
(*                                                                         *)
(*   RPC binding    : DGPythonDelegate (dg_gateway.py) driving DGHandler   *)
(*                    instances (dg_handler.py); several caller threads.   *)
(*   Socket binding : the accept loop, frame codec, command router and     *)
(*                    handle_execute of dgfacade_worker.py; one thread.    *)
(***************************************************************************)
EXTENDS Integers, Sequences, FiniteSets, TLC

VARIABLES
    handler_cache,      \* DGPythonDelegate._handler_cache : identifier -> class
    sys_modules,        \* modules already imported by importlib (module path -> generation)
    requests_handled,   \* DGPythonDelegate._requests_handled
    errors,             \* DGPythonDelegate._errors
    frame,              \* thread -> activation record of executeHandler
    heap,               \* live DGHandler instances, keyed by the id of the creating call
    calls,              \* number of executeHandler calls begun so far
    server,             \* dgfacade_worker.main: program point, `running`, connections accepted
                        \* and closed, and the connections answered, in the order of the answers
    conn,               \* the connection being handled and handle_connection's locals
    worker_cache,       \* dgfacade_worker._handler_cache : cache key -> handler instance
    exec_log,           \* what the last handle_execute did to its handler
    responses,          \* the tally a caller keeps of the statuses of the responses
                        \* executeHandler returned to it
    flat                \* TransformPythonHandler.compute for JSON_FLATTEN: payload["data"]
                        \* and the result

rpcVars == <<handler_cache, sys_modules, requests_handled, errors, frame, heap, calls,
             responses>>

sockVars == <<server, conn, worker_cache, exec_log>>

vars == <<handler_cache, sys_modules, requests_handled, errors, frame, heap, calls,
          server, conn, worker_cache, exec_log, responses, flat>>

-----------------------------------------------------------------------------
(* Bounds *)

\* executeHandler calls begun in one behaviour
MaxCalls == 3

\* caller threads of the Py4J callback server
Threads == {"t1", "t2"}

\* connections accepted in one behaviour
MaxConns == 3

\* levels of maps and sequences in the data given to JSON_FLATTEN
MaxNesting == 2

\* the most bytes one recv returns on a connection whose transport dribbles
SmallMtu == 16

-----------------------------------------------------------------------------
(* Python values *)

Absent == "<absent>"

\* json.loads raises JSONDecodeError on a text that is not a JSON document
JsonValid(text) == text \notin {"{bad"}

\* json.loads of the request / properties texts used as inputs
\* a document is kept as its type and the fields the code reads: requestId,
\* the property k, and payload.operation (payload: Absent when the document
\* has no payload, "{}" for a payload map; operation: the payload's entry)
PyValue(t, requestId, k, payload, operation) ==
    [t |-> t, requestId |-> requestId, k |-> k, payload |-> payload,
     operation |-> operation]

JsonLoads(text) ==
    CASE text = "{\"requestId\": \"r1\"}" -> PyValue("dict", "r1", Absent, Absent, Absent)
      [] text = "{\"requestId\": \"r2\"}" -> PyValue("dict", "r2", Absent, Absent, Absent)
      [] text = "{}"                       -> PyValue("dict", Absent, Absent, Absent, Absent)
      [] text = "{\"k\": \"v\"}"           -> PyValue("dict", Absent, "v", Absent, Absent)
      [] text = "[1]"                      -> PyValue("list", Absent, Absent, Absent, Absent)
      [] text = "{\"requestId\": \"r1\", \"payload\": {\"text\": \"a\"}}"
            -> PyValue("dict", "r1", Absent, "{}", Absent)
      [] text = "{\"requestId\": \"r2\", \"payload\": {\"operation\": \"UPPERCASE\"}}"
            -> PyValue("dict", "r2", Absent, "{}", "UPPERCASE")
      [] text = "{\"payload\": {\"operation\": \"FOO\"}}"
            -> PyValue("dict", Absent, Absent, "{}", "FOO")
      [] OTHER                             -> PyValue("unbound", Absent, Absent, Absent, Absent)

EmptyDict == PyValue("dict", Absent, Absent, Absent, Absent)
Unbound == PyValue("unbound", Absent, Absent, Absent, Absent)
PyNone == PyValue("none", Absent, Absent, Absent, Absent)

\* request_dict.get("requestId", default)
GetRequestId(d, default) == IF d.requestId = Absent THEN default ELSE d.requestId

\* d[key] = value on a dict kept as a function
DictSet(d, key, value) ==
    [x \in DOMAIN d \cup {key} |-> IF x = key THEN value ELSE d[x]]

DictDel(d, key) == [x \in DOMAIN d \ {key} |-> d[x]]

EmptyMap == [x \in {} |-> 0]

-----------------------------------------------------------------------------
(* Handler identifiers, modules and classes *)

EchoName == <<"handlers", "echo_handler", "EchoPythonHandler">>
UserName == <<"handlers", "user_handler", "UserHandler">>
TransformName == <<"handlers", "transform_handler", "TransformPythonHandler">>
NoDotName == <<"EchoPythonHandler">>
NoModuleName == <<"nomodule", "Handler">>
NoClassName == <<"handlers", "echo_handler", "Missing">>

ClassNames == {EchoName, UserName, TransformName, NoDotName, NoModuleName, NoClassName}

\* modules importable from PYTHONPATH and the handler classes they define
InstalledModules ==
    {<<"handlers", "echo_handler">>, <<"handlers", "user_handler">>,
     <<"handlers", "transform_handler">>}

ModuleClasses(module_path) ==
    CASE module_path = <<"handlers", "echo_handler">> -> {"EchoPythonHandler"}
      [] module_path = <<"handlers", "user_handler">> -> {"UserHandler"}
      [] module_path = <<"handlers", "transform_handler">> -> {"TransformPythonHandler"}
      [] OTHER -> {}

NoClass == [module |-> <<>>, name |-> "", gen |-> 0]

\* fully_qualified_name.rsplit(".", 1) on a name kept as its dot-separated segments
RSplit(name) ==
    IF Len(name) >= 2
    THEN <<SubSeq(name, 1, Len(name) - 1), <<name[Len(name)]>> >>
    ELSE <<name>>

\* importlib.import_module: a module is executed on its first import only
ImportModule(mods, module_path) ==
    IF module_path \in DOMAIN mods
    THEN [found |-> TRUE, mods |-> mods, gen |-> mods[module_path]]
    ELSE IF module_path \in InstalledModules
         THEN [found |-> TRUE, mods |-> DictSet(mods, module_path, 1), gen |-> 1]
         ELSE [found |-> FALSE, mods |-> mods, gen |-> 0]

-----------------------------------------------------------------------------
(* Handler behaviour: what the handler classes' own code can do *)

IsUser(cls) == cls.name = "UserHandler"

IsTransform(cls) == cls.name = "TransformPythonHandler"

\* the keys of the `operations` table of TransformPythonHandler.compute
SupportedOperations ==
    {"UPPERCASE", "LOWERCASE", "REVERSE", "WORD_COUNT", "SHA256", "WORD_FREQ",
     "JSON_FLATTEN"}

\* handler_class(): DGHandler.__init__ never raises; a subclass __init__ may
CtorMayRaise(cls) == IF IsUser(cls) THEN BOOLEAN ELSE {FALSE}

\* variant of StartMayRaise: TransformPythonHandler.start does not look at
\* the payload
StartNeverValidates(cls, request) == IF IsUser(cls) THEN BOOLEAN ELSE {FALSE}

\* start(request): an override calls super().start and may then raise;
\* TransformPythonHandler.start raises ValueError when the payload (an empty
\* map when the request has none) has no 'operation'
StartMayRaise(cls, request) ==
    IF IsUser(cls) THEN BOOLEAN
    ELSE IF IsTransform(cls) THEN {request.operation = Absent}
    ELSE {FALSE}

\* stop(response): an override may raise
StopMayRaise(cls) == IF IsUser(cls) THEN BOOLEAN ELSE {FALSE}

\* compute(request): EchoPythonHandler reads self.app_properties.get, which
\* raises AttributeError when the properties document is a non-empty list;
\* TransformPythonHandler raises ValueError on an operation it does not know
ComputeOutcomes(inst) ==
    IF IsUser(inst.cls) THEN {"ok", "raise", "unserializable"}
    ELSE IF IsTransform(inst.cls)
    THEN IF inst.request.operation \in SupportedOperations THEN {"ok"} ELSE {"raise"}
    ELSE IF inst.app_properties.t = "list" THEN {"raise"} ELSE {"ok"}

\* type(e).__name__ of what compute() raises
ComputeExc(cls) ==
    IF IsUser(cls) THEN "ComputeError"
    ELSE IF IsTransform(cls) THEN "ValueError"
    ELSE "AttributeError"

\* JSON values as Python holds them: an int, a dict (its keys in insertion
\* order and the value under each), a list
PyInt(n) == [t |-> "int", n |-> n, keys |-> <<>>, vals |-> <<>>]

PyDict(keys, vals) == [t |-> "dict", n |-> 0, keys |-> keys, vals |-> vals]

PyList(vals) == [t |-> "list", n |-> 0, keys |-> <<>>, vals |-> vals]

\* items.update(other)
DictUpdate(items, other) ==
    [x \in DOMAIN items \cup DOMAIN other |->
        IF x \in DOMAIN other THEN other[x] ELSE items[x]]

\* new_key = f"{prefix}.{k}" if prefix else k
NewKey(prefix, k) == IF prefix # "" THEN prefix \o "." \o k ELSE k

\* f"{new_key}[{i}]"
IndexKey(new_key, i) == new_key \o "[" \o ToString(i) \o "]"

RECURSIVE JsonFlatten(_, _)
RECURSIVE FlattenItems(_, _, _, _)
RECURSIVE FlattenList(_, _, _, _)

\* the loop over enumerate(v), from the element at position i on
FlattenList(elems, i, new_key, items) ==
    IF i > Len(elems) THEN items
    ELSE LET item == elems[i]
             key == IndexKey(new_key, i - 1)
         IN  FlattenList(elems, i + 1, new_key,
                 IF item.t = "dict"
                 THEN DictUpdate(items, JsonFlatten(item, key))
                 ELSE DictSet(items, key, item))

\* the loop over data.items(), from the entry at position i on
FlattenItems(data, i, prefix, items) ==
    IF i > Len(data.keys) THEN items
    ELSE LET v == data.vals[i]
             new_key == NewKey(prefix, data.keys[i])
         IN  FlattenItems(data, i + 1, prefix,
                 IF v.t = "dict" THEN DictUpdate(items, JsonFlatten(v, new_key))
                 ELSE IF v.t = "list" THEN FlattenList(v.vals, 1, new_key, items)
                 ELSE DictSet(items, new_key, v))

\* TransformPythonHandler._json_flatten: the dict it returns
JsonFlatten(data, prefix) ==
    LET items == FlattenItems(data, 1, prefix, EmptyMap)
    IN  [flattened |-> items, keyCount |-> PyInt(Cardinality(DOMAIN items))]

RequestType(cls) ==
    IF IsUser(cls) THEN <<"PYTHON_USER">>
    ELSE IF IsTransform(cls) THEN <<"PYTHON_TRANSFORM">>
    ELSE <<"PYTHON_ECHO">>

-----------------------------------------------------------------------------
(* Responses *)

NoResponse ==
    [status |-> "none", requestId |-> Absent, handlerType |-> <<>>,
     errorCode |-> Absent, errorMessage |-> Absent, stackTrace |-> Absent,
     serializable |-> TRUE]

\* DGHandler.execute: the SUCCESS response
SuccessResponse(inst, ser) ==
    [status |-> "SUCCESS", requestId |-> GetRequestId(inst.request, "unknown"),
     handlerType |-> RequestType(inst.cls), errorCode |-> Absent,
     errorMessage |-> Absent, stackTrace |-> Absent, serializable |-> ser]

\* ', '.join(sorted(operations.keys())) as the sequence of names it joins
SortedOperations ==
    <<"JSON_FLATTEN", "LOWERCASE", "REVERSE", "SHA256", "UPPERCASE", "WORD_COUNT",
      "WORD_FREQ">>

\* variant of ComputeMessage: the ValueError of TransformPythonHandler.compute
\* names the operation it was given and nothing else
ComputeMessageBare(inst, exc) ==
    IF IsTransform(inst.cls)
    THEN <<"Unknown operation: '", inst.request.operation, "'.">>
    ELSE <<"str", exc>>

\* str(e) of what compute() raises, as the sequence of its parts:
\* TransformPythonHandler.compute formats the operation and the sorted names
\* of its table into the message
ComputeMessage(inst, exc) ==
    IF IsTransform(inst.cls)
    THEN <<"Unknown operation: '", inst.request.operation, "'. Supported: ">>
            \o SortedOperations
    ELSE <<"str", exc>>

\* DGHandler.execute: the ERROR response built when compute() raises
ComputeErrorResponse(inst, exc) ==
    [status |-> "ERROR", requestId |-> GetRequestId(inst.request, "unknown"),
     handlerType |-> RequestType(inst.cls), errorCode |-> exc,
     errorMessage |-> ComputeMessage(inst, exc), stackTrace |-> <<"traceback", exc>>,
     serializable |-> TRUE]

\* variant of ErrorResponse: the requestId of the parsed request is not
\* copied into the error response
ErrorResponseUnknownId(f) ==
    [status |-> "ERROR", requestId |-> "unknown",
     handlerType |-> f.name, errorCode |-> f.exc,
     errorMessage |-> <<"str", f.exc>>, stackTrace |-> <<"traceback", f.exc>>,
     serializable |-> TRUE]

\* executeHandler: the error response of the except branch; requestId is read
\* from request_dict when that local is bound and is a dict
ErrorResponse(f) ==
    [status |-> "ERROR",
     requestId |-> IF f.request_dict.t = "dict"
                   THEN GetRequestId(f.request_dict, "unknown")
                   ELSE "unknown",
     handlerType |-> f.name, errorCode |-> f.exc,
     errorMessage |-> <<"str", f.exc>>, stackTrace |-> <<"traceback", f.exc>>,
     serializable |-> TRUE]

-----------------------------------------------------------------------------
(* executeHandler: activation records and exception routing *)

InitFrame ==
    [pc |-> "idle", call |-> 0, name |-> <<>>, dg_request_json |-> "",
     pong |-> Absent, stats |-> [reported |-> FALSE, requestsHandled |-> 0, errors |-> 0],
     request_dict |-> Unbound, app_props |-> Unbound,
     handler_class |-> NoClass, cls |-> NoClass, handler_instance |-> 0,
     response_dict |-> NoResponse, error_response |-> NoResponse,
     tmp |-> 0, exc |-> "", ret |-> NoResponse]

\* program points inside the try block of executeHandler (lines 88-120)
InTry(pc) ==
    pc \in {"parse", "load", "import", "cache_write", "construct", "start",
            "execute", "stop", "count_read", "count_write"}

\* an exception raised at f.pc: caught by `except Exception` when raised in
\* the try block, leaves executeHandler otherwise
Raise(f, exc) ==
    IF InTry(f.pc)
    THEN [f EXCEPT !.pc = "except", !.exc = exc]
    ELSE [f EXCEPT !.pc = "raised", !.exc = exc]

\* lines 90-96: parse both documents and read the two request fields
ParseInputs(f, reqText, propsText) ==
    IF ~JsonValid(reqText) THEN Raise(f, "JSONDecodeError")
    ELSE LET rd == JsonLoads(reqText)
             f1 == [f EXCEPT !.request_dict = rd]
         IN  IF propsText # "" /\ ~JsonValid(propsText)
             THEN Raise(f1, "JSONDecodeError")
             ELSE LET ap == IF propsText = "" THEN EmptyDict ELSE JsonLoads(propsText)
                      f2 == [f1 EXCEPT !.app_props = ap]
                  IN  IF rd.t # "dict"
                      THEN Raise(f2, "AttributeError")
                      ELSE [f2 EXCEPT !.pc = "load"]

\* a handler instance as DGHandler.__init__ leaves it, with the properties
\* the gateway injects (line 103)
NewInstance(cls, app_props) ==
    [cls |-> cls, status |-> "CREATED", request |-> PyNone,
     app_properties |-> app_props, stop_calls |-> <<>>,
     status_log |-> <<"CREATED">>]

\* self._status = s; status_log keeps every value _status has been given
SetStatus(inst, s) ==
    [inst EXCEPT !.status = s, !.status_log = Append(@, s)]

\* variant of Instantiate: an instance of the class that is still alive is
\* handed out again, as a per-class instance cache would
InstantiateCached(h, f) ==
    LET same == {id \in DOMAIN h : h[id].cls = f.handler_class} IN
    IF same # {}
    THEN [id |-> CHOOSE id \in same : TRUE, heap |-> h]
    ELSE [id |-> f.call,
          heap |-> DictSet(h, f.call, NewInstance(f.handler_class, f.app_props))]

\* line 100: handler_class() makes a new object for this call
Instantiate(h, f) ==
    [id |-> f.call,
     heap |-> DictSet(h, f.call, NewInstance(f.handler_class, f.app_props))]

\* DGHandler.stop as called with `response`; `raised` is what the override did
StopInstance(inst, response, raised) ==
    [SetStatus(inst, "STOPPED") EXCEPT
        !.stop_calls = Append(@, [arg |-> response, raised |-> raised])]

\* variant of ReturnAfterExceptStop: the stop() call of the except branch is
\* not wrapped in a try, so its exception leaves executeHandler
PropagateAfterExceptStop(f, raised) ==
    IF raised THEN Raise(f, "RuntimeError")
    ELSE [f EXCEPT !.pc = "returned", !.ret = f.error_response]

\* lines 148-153: an exception of stop() in the except branch is logged and
\* the error response is returned
ReturnAfterExceptStop(f, raised) ==
    [f EXCEPT !.pc = "returned", !.ret = f.error_response]

\* an instance no frame other than t's refers to is collected when t's call ends
Collect(h, fr, t) ==
    LET id == fr[t].handler_instance
    IN  IF id \in DOMAIN h /\ \A u \in DOMAIN fr : u # t => fr[u].handler_instance # id
        THEN DictDel(h, id)
        ELSE h

-----------------------------------------------------------------------------
(* RPC binding: the steps of one executeHandler call by thread t *)

RequestTexts ==
    {"{\"requestId\": \"r1\"}", "{\"requestId\": \"r2\"}", "{}", "[1]", "{bad",
     "{\"requestId\": \"r1\", \"payload\": {\"text\": \"a\"}}",
     "{\"requestId\": \"r2\", \"payload\": {\"operation\": \"UPPERCASE\"}}",
     "{\"payload\": {\"operation\": \"FOO\"}}"}
PropsTexts == {"", "{\"k\": \"v\"}", "[1]", "{bad"}

\* the inputs of the concurrent specification
ConcNames == {EchoName, NoClassName}
ConcRequestTexts == {"{\"requestId\": \"r1\"}", "{\"requestId\": \"r2\"}", "{bad"}
ConcPropsTexts == {"", "{\"k\": \"v\"}"}

\* the gateway's inputs in the specification of either binding
EitherRequestTexts == {"{\"requestId\": \"r1\"}", "[1]", "{bad"}
EitherPropsTexts == {"", "{bad"}

\* the inputs of the specification of the counters
StatsRequestTexts == {"{\"requestId\": \"r1\"}", "{bad", "{\"payload\": {\"operation\": \"FOO\"}}"}
StatsPropsTexts == {"", "[1]"}

\* a caller that keeps no tally, and one that starts counting
NoTally == [tallied |-> FALSE, SUCCESS |-> 0, ERROR |-> 0]

StartTally == [tallied |-> TRUE, SUCCESS |-> 0, ERROR |-> 0]

\* line 153: the caller receives a response with this status
Tally(r, status) == IF r.tallied THEN [r EXCEPT ![status] = @ + 1] ELSE r

\* lines 85-96
Call(t, names, reqTexts, propsTexts) ==
    /\ frame[t].pc \in {"idle", "returned", "raised"}
    /\ calls < MaxCalls
    /\ \E name \in names, reqText \in reqTexts, propsText \in propsTexts :
         LET f0 == [InitFrame EXCEPT !.pc = "parse", !.call = calls + 1, !.name = name,
                                     !.dg_request_json = reqText]
         IN  frame' = [frame EXCEPT ![t] = ParseInputs(f0, reqText, propsText)]
    /\ heap' = Collect(heap, frame, t)
    /\ calls' = calls + 1
    /\ UNCHANGED <<handler_cache, sys_modules, requests_handled, errors, responses>>
    /\ UNCHANGED <<sockVars, flat>>

\* lines 99, 178-190: the cache check and the split of the name
LoadClassCheck(t) ==
    LET f == frame[t] IN
    /\ f.pc = "load"
    /\ frame' = [frame EXCEPT ![t] =
         IF f.name \in DOMAIN handler_cache
         THEN [f EXCEPT !.handler_class = handler_cache[f.name], !.pc = "construct"]
         ELSE IF Len(RSplit(f.name)) # 2
              THEN Raise(f, "ImportError")
              ELSE [f EXCEPT !.pc = "import"]]
    /\ UNCHANGED <<handler_cache, sys_modules, requests_handled, errors, heap, calls, responses>>
    /\ UNCHANGED <<sockVars, flat>>

\* lines 192-203: import the module and look the class up in it
LoadClassImport(t) ==
    LET f == frame[t]
        module_path == RSplit(f.name)[1]
        class_name == RSplit(f.name)[2][1]
        r == ImportModule(sys_modules, module_path)
    IN
    /\ f.pc = "import"
    /\ sys_modules' = r.mods
    /\ frame' = [frame EXCEPT ![t] =
         IF ~r.found \/ class_name \notin ModuleClasses(module_path)
         THEN Raise(f, "ImportError")
         ELSE [f EXCEPT !.pc = "cache_write",
                        !.cls = [module |-> module_path, name |-> class_name,
                                 gen |-> r.gen]]]
    /\ UNCHANGED <<handler_cache, requests_handled, errors, heap, calls, responses>>
    /\ UNCHANGED <<sockVars, flat>>

\* variant of CacheStore: the entry is filed under the bare class name
CacheStoreByClassName(cache, f) == DictSet(cache, RSplit(f.name)[2], f.cls)

\* lines 205-207
CacheStore(cache, f) == DictSet(cache, f.name, f.cls)

LoadClassStore(t) ==
    LET f == frame[t] IN
    /\ f.pc = "cache_write"
    /\ handler_cache' = CacheStore(handler_cache, f)
    /\ frame' = [frame EXCEPT ![t] = [f EXCEPT !.handler_class = f.cls, !.pc = "construct"]]
    /\ UNCHANGED <<sys_modules, requests_handled, errors, heap, calls, responses>>
    /\ UNCHANGED <<sockVars, flat>>

\* lines 100-103
Construct(t) ==
    LET f == frame[t] IN
    /\ f.pc = "construct"
    /\ \E raises \in CtorMayRaise(f.handler_class) :
         IF raises
         THEN /\ frame' = [frame EXCEPT ![t] = Raise(f, "RuntimeError")]
              /\ heap' = heap
         ELSE LET r == Instantiate(heap, f) IN
              /\ heap' = r.heap
              /\ frame' = [frame EXCEPT ![t] =
                   [f EXCEPT !.handler_instance = r.id, !.pc = "start"]]
    /\ UNCHANGED <<handler_cache, sys_modules, requests_handled, errors, calls, responses>>
    /\ UNCHANGED <<sockVars, flat>>

\* line 106; DGHandler.start (dg_handler.py 138-148)
Start(t) ==
    LET f == frame[t]
        id == f.handler_instance
    IN
    /\ f.pc = "start"
    /\ heap' = [heap EXCEPT ![id] =
         SetStatus([SetStatus(@, "STARTING") EXCEPT !.request = f.request_dict], "READY")]
    /\ \E raises \in StartMayRaise(f.handler_class, f.request_dict) :
         frame' = [frame EXCEPT ![t] =
           IF raises THEN Raise(f, "ValueError") ELSE [f EXCEPT !.pc = "execute"]]
    /\ UNCHANGED <<handler_cache, sys_modules, requests_handled, errors, calls, responses>>
    /\ UNCHANGED <<sockVars, flat>>

\* line 109; DGHandler.execute (dg_handler.py 150-188)
Execute(t) ==
    LET f == frame[t]
        id == f.handler_instance
        inst == heap[id]
    IN
    /\ f.pc = "execute"
    /\ \E outcome \in ComputeOutcomes(inst) :
         /\ heap' = [heap EXCEPT ![id] =
              SetStatus(SetStatus(@, "EXECUTING"),
                        IF outcome = "raise" THEN "FAILED" ELSE "STOPPED")]
         /\ frame' = [frame EXCEPT ![t] =
              [f EXCEPT !.pc = "stop",
                        !.response_dict =
                           IF outcome = "raise"
                           THEN ComputeErrorResponse(inst, ComputeExc(inst.cls))
                           ELSE SuccessResponse(inst, outcome = "ok")]]
    /\ UNCHANGED <<handler_cache, sys_modules, requests_handled, errors, calls, responses>>
    /\ UNCHANGED <<sockVars, flat>>

\* line 112; DGHandler.stop (dg_handler.py 190-197)
Stop(t) ==
    LET f == frame[t]
        id == f.handler_instance
    IN
    /\ f.pc = "stop"
    /\ \E raises \in StopMayRaise(f.handler_class) :
         /\ heap' = [heap EXCEPT ![id] = StopInstance(@, f.response_dict, raises)]
         /\ frame' = [frame EXCEPT ![t] =
              IF raises THEN Raise(f, "RuntimeError") ELSE [f EXCEPT !.pc = "count_read"]]
    /\ UNCHANGED <<handler_cache, sys_modules, requests_handled, errors, calls, responses>>
    /\ UNCHANGED <<sockVars, flat>>

\* line 114, the load of self._requests_handled
CountRead(t) ==
    LET f == frame[t] IN
    /\ f.pc = "count_read"
    /\ frame' = [frame EXCEPT ![t] = [f EXCEPT !.tmp = requests_handled, !.pc = "count_write"]]
    /\ UNCHANGED <<handler_cache, sys_modules, requests_handled, errors, heap, calls, responses>>
    /\ UNCHANGED <<sockVars, flat>>

\* line 114, the store, and lines 115-120: json.dumps(response_dict) raises
\* TypeError on a result that is not JSON serializable
CountWrite(t) ==
    LET f == frame[t] IN
    /\ f.pc = "count_write"
    /\ requests_handled' = f.tmp + 1
    /\ frame' = [frame EXCEPT ![t] =
         IF f.response_dict.serializable
         THEN [f EXCEPT !.pc = "returned", !.ret = f.response_dict]
         ELSE Raise(f, "TypeError")]
    /\ responses' = IF f.response_dict.serializable
                    THEN Tally(responses, f.response_dict.status)
                    ELSE responses
    /\ UNCHANGED <<handler_cache, sys_modules, errors, heap, calls>>
    /\ UNCHANGED <<sockVars, flat>>

\* line 123, the load of self._errors
ErrRead(t) ==
    LET f == frame[t] IN
    /\ f.pc = "except"
    /\ frame' = [frame EXCEPT ![t] = [f EXCEPT !.tmp = errors, !.pc = "err_write"]]
    /\ UNCHANGED <<handler_cache, sys_modules, requests_handled, errors, heap, calls, responses>>
    /\ UNCHANGED <<sockVars, flat>>

\* line 123, the store, and lines 124-144: the error response
ErrWrite(t) ==
    LET f == frame[t] IN
    /\ f.pc = "err_write"
    /\ errors' = f.tmp + 1
    /\ frame' = [frame EXCEPT ![t] =
         [f EXCEPT !.error_response = ErrorResponse(f), !.pc = "except_stop"]]
    /\ UNCHANGED <<handler_cache, sys_modules, requests_handled, heap, calls, responses>>
    /\ UNCHANGED <<sockVars, flat>>

\* lines 146-153
ExceptStop(t) ==
    LET f == frame[t]
        id == f.handler_instance
    IN
    /\ f.pc = "except_stop"
    /\ IF id = 0
       THEN /\ heap' = heap
            /\ frame' = [frame EXCEPT ![t] = [f EXCEPT !.pc = "returned", !.ret = f.error_response]]
       ELSE \E raises \in StopMayRaise(heap[id].cls) :
            /\ heap' = [heap EXCEPT ![id] = StopInstance(@, f.error_response, raises)]
            /\ frame' = [frame EXCEPT ![t] =
                 IF raises
                 THEN ReturnAfterExceptStop(f, raises)
                 ELSE [f EXCEPT !.pc = "returned", !.ret = f.error_response]]
    /\ responses' = Tally(responses, f.error_response.status)
    /\ UNCHANGED <<handler_cache, sys_modules, requests_handled, errors, calls>>
    /\ UNCHANGED <<sockVars, flat>>

\* lines 155-157: ping, called by a thread that is not inside executeHandler
Ping(t) ==
    /\ frame[t].pc \in {"idle", "returned", "raised"}
    /\ frame' = [frame EXCEPT ![t] = [InitFrame EXCEPT !.pong = "pong"]]
    /\ heap' = Collect(heap, frame, t)
    /\ UNCHANGED <<handler_cache, sys_modules, requests_handled, errors, calls, responses>>
    /\ UNCHANGED <<sockVars, flat>>

\* lines 159-166: getStats, called by a thread that is not inside
\* executeHandler; the two counters of the document it returns
GetStats(t) ==
    /\ frame[t].pc \in {"idle", "returned", "raised"}
    /\ frame' = [frame EXCEPT ![t] =
         [InitFrame EXCEPT !.stats = [reported |-> TRUE,
                                      requestsHandled |-> requests_handled,
                                      errors |-> errors]]]
    /\ heap' = Collect(heap, frame, t)
    /\ UNCHANGED <<handler_cache, sys_modules, requests_handled, errors, calls, responses>>
    /\ UNCHANGED <<sockVars, flat>>

Lifecycle(t) ==
    \/ LoadClassCheck(t)
    \/ LoadClassImport(t)
    \/ LoadClassStore(t)
    \/ Construct(t)
    \/ Start(t)
    \/ Execute(t)
    \/ Stop(t)
    \/ CountRead(t)
    \/ CountWrite(t)
    \/ ErrRead(t)
    \/ ErrWrite(t)
    \/ ExceptStop(t)

-----------------------------------------------------------------------------
(* Socket binding: frame codec (dgfacade_worker.py 191-213) *)

MaxFrameLen == 50 * 1024 * 1024

RecvBuf == 65536

Min(a, b) == IF a <= b THEN a ELSE b

\* struct.unpack(">I", raw_len)[0]
UnpackU32(b) == ((b[1] * 256 + b[2]) * 256 + b[3]) * 256 + b[4]

\* struct.pack(">I", n)
PackU32(n) == <<n \div 16777216, (n \div 65536) % 256, (n \div 256) % 256, n % 256>>

\* variant of LengthRejected: the cap itself is refused
LengthRejectedAtCap(msg_len) == msg_len <= 0 \/ msg_len >= MaxFrameLen

\* line 197
LengthRejected(msg_len) == msg_len <= 0 \/ msg_len > MaxFrameLen

-----------------------------------------------------------------------------
(* Socket binding: the documents a payload decodes to *)

NonString == "<not a string>"

Doc(kind, command, m, c, rj, cj) ==
    [kind |-> kind, command |-> command, handler_module |-> m, handler_class |-> c,
     request_json |-> rj, config_json |-> cj]

PingDoc == Doc("dict", "ping", <<>>, <<>>, Absent, Absent)
ShutdownDoc == Doc("dict", "shutdown", <<>>, <<>>, Absent, Absent)
RestartDoc == Doc("dict", "restart", <<>>, <<>>, Absent, Absent)
NoCommandDoc == Doc("dict", Absent, <<>>, <<>>, Absent, Absent)
NullDoc == Doc("null", Absent, <<>>, <<>>, Absent, Absent)
ListDoc == Doc("list", Absent, <<>>, <<>>, Absent, Absent)
MalformedDoc == Doc("malformed", Absent, <<>>, <<>>, Absent, Absent)

WorkerModule == <<"handlers", "worker_user">>
MissingModule == <<"handlers", "nowhere">>

ExecuteDocs ==
    {Doc("dict", "execute", m, <<"WorkerHandler">>, rj, cj) :
        m \in {WorkerModule, MissingModule},
        rj \in {"{\"requestId\": \"r1\"}", "{bad", NonString},
        cj \in {Absent, "{\"k\": \"v\"}", "{bad"}}

Docs == {PingDoc, ShutdownDoc, RestartDoc, NoCommandDoc, NullDoc, ListDoc, MalformedDoc}
            \cup ExecuteDocs

\* the number of bytes of the UTF-8 text of a document
PayloadLen(doc) ==
    CASE doc.kind = "null" -> 4
      [] doc.kind = "list" -> 3
      [] doc.kind = "malformed" -> 4
      [] doc.command = "ping" -> 19
      [] doc.command = "shutdown" -> 23
      [] doc.command = "restart" -> 22
      [] doc.command = "execute" -> 150
      [] OTHER -> 2

\* what a peer puts on a connection: the 4 prefix bytes, how many of them the
\* first recv returns, how many payload bytes arrive before the peer closes,
\* the most bytes one recv returns, and the document the payload spells
WellFormed(doc) ==
    [prefix |-> PackU32(PayloadLen(doc)), first |-> 4, avail |-> PayloadLen(doc),
     mtu |-> RecvBuf, doc |-> doc]

Streams ==
    {WellFormed(d) : d \in Docs}
      \cup {[WellFormed(d) EXCEPT !.mtu = SmallMtu] : d \in {PingDoc, ShutdownDoc, NullDoc}}
      \cup {[WellFormed(d) EXCEPT !.avail = @ - 1] : d \in {PingDoc, ShutdownDoc}}
      \cup {[WellFormed(PingDoc) EXCEPT !.first = n] : n \in 0..3}
      \cup {[WellFormed(PingDoc) EXCEPT !.prefix = PackU32(n)] :
              n \in {0, MaxFrameLen + 1, 2147483647}}
      \cup {[WellFormed(PingDoc) EXCEPT !.prefix = PackU32(MaxFrameLen), !.avail = a] :
              a \in {MaxFrameLen, MaxFrameLen - 1}}

NoStream == [prefix |-> <<0, 0, 0, 0>>, first |-> 0, avail |-> 0, mtu |-> 0, doc |-> NullDoc]

\* read_message has not returned yet
Unread == [kind |-> "unread"]

\* Python's None, which read_message returns at the end of the stream and on
\* a rejected length
ReadNone == [kind |-> "None"]

\* line 207: json.loads of the payload text; the document null loads as None
JsonLoadsPayload(doc) == IF doc.kind = "null" THEN ReadNone ELSE doc

-----------------------------------------------------------------------------
(* Socket binding: responses and handler results *)

SockResp(isdict, status, msg, tb, data, pong, ser) ==
    [isdict |-> isdict, status |-> status, error_message |-> msg, traceback |-> tb,
     data |-> data, pong |-> pong, serializable |-> ser]

NoSockResp == SockResp(TRUE, "none", <<>>, FALSE, Absent, FALSE, TRUE)

\* the keys of a response dict
SockKeys(resp) ==
    {"status"}
      \cup (IF resp.error_message # <<>> THEN {"error_message"} ELSE {})
      \cup (IF resp.traceback THEN {"traceback"} ELSE {})
      \cup (IF resp.data # Absent THEN {"data"} ELSE {})
      \cup (IF resp.pong THEN {"timestamp", "worker_id"} ELSE {})

\* what a handler's execute(request, app_properties) may return
ExecResults ==
    {SockResp(TRUE, "SUCCESS", <<>>, FALSE, "d", FALSE, TRUE),
     SockResp(TRUE, Absent, <<>>, FALSE, Absent, FALSE, TRUE),
     SockResp(TRUE, Absent, <<>>, FALSE, "d", FALSE, TRUE),
     SockResp(TRUE, "ERROR", <<"handler error">>, FALSE, Absent, FALSE, TRUE),
     SockResp(TRUE, "PARTIAL", <<>>, FALSE, Absent, FALSE, TRUE),
     SockResp(FALSE, Absent, <<>>, FALSE, Absent, FALSE, TRUE),
     SockResp(TRUE, "SUCCESS", <<>>, FALSE, "d", FALSE, FALSE)}

\* what the handler's own code does in one dispatch
Behaviours ==
    [construct_raises : BOOLEAN, execute_raises : BOOLEAN, result : ExecResults,
     cleanup_raises : BOOLEAN]

\* variant of Normalise: the data default is added whatever the status is
NormaliseAlwaysData(result) ==
    LET r1 == IF ~result.isdict
              THEN SockResp(TRUE, "SUCCESS", <<>>, FALSE, "wrapped", FALSE, TRUE)
              ELSE result
        r2 == IF r1.status = Absent THEN [r1 EXCEPT !.status = "SUCCESS"] ELSE r1
    IN  IF r2.data = Absent THEN [r2 EXCEPT !.data = "{}"] ELSE r2

\* lines 147-153
Normalise(result) ==
    LET r1 == IF ~result.isdict
              THEN SockResp(TRUE, "SUCCESS", <<>>, FALSE, "wrapped", FALSE, TRUE)
              ELSE result
        r2 == IF r1.status = Absent THEN [r1 EXCEPT !.status = "SUCCESS"] ELSE r1
    IN  IF r2.data = Absent /\ r2.status = "SUCCESS" THEN [r2 EXCEPT !.data = "{}"] ELSE r2

-----------------------------------------------------------------------------
(* Socket binding: handler cache and handle_execute *)

WorkerModuleClasses(m) == IF m = WorkerModule THEN {<<"WorkerHandler">>} ELSE {}

\* line 113: f"{module_name}.{class_name}" on names kept as segments
CacheKey(module_name, class_name) == module_name \o class_name

\* variant of GetHandlerInstance: the key is entered in the cache before the
\* import is tried, and stays there when the import fails
GetHandlerInstanceCachesFailure(cache, module_name, class_name) ==
    LET key == CacheKey(module_name, class_name) IN
    IF key \in DOMAIN cache
    THEN [found |-> cache[key].cls # <<>>, cache |-> cache]
    ELSE IF class_name \in WorkerModuleClasses(module_name)
         THEN [found |-> TRUE,
               cache |-> DictSet(cache, key, [cls |-> class_name, config |-> PyNone])]
         ELSE [found |-> FALSE,
               cache |-> DictSet(cache, key, [cls |-> <<>>, config |-> PyNone])]

\* get_handler_instance (lines 111-124)
GetHandlerInstance(cache, module_name, class_name) ==
    LET key == CacheKey(module_name, class_name) IN
    IF key \in DOMAIN cache
    THEN [found |-> TRUE, cache |-> cache]
    ELSE IF class_name \in WorkerModuleClasses(module_name)
         THEN [found |-> TRUE,
               cache |-> DictSet(cache, key, [cls |-> class_name, config |-> PyNone])]
         ELSE [found |-> FALSE, cache |-> cache]

\* what handle_execute did: whether the handler was resolved, the handler
\* methods called, what raised ("" when nothing did), what execute() returned,
\* the response built and whether cleanup() raised
NoLog ==
    [resolved |-> FALSE, calls |-> <<>>, failure |-> "", returned |-> NoSockResp,
     built |-> NoSockResp, cleanup_raised |-> FALSE]

ExecOutcome(raised, exc, response, cache, log) ==
    [raised |-> raised, exc |-> exc, response |-> response, cache |-> cache, log |-> log]

\* variant of FinallyCleanup: cleanup() is called bare in the finally clause,
\* so its exception replaces the return value
FinallyCleanupPropagates(outcome, cleanup_raises) ==
    IF cleanup_raises
    THEN [outcome EXCEPT !.raised = TRUE, !.exc = "CleanupError"]
    ELSE outcome

\* lines 164-168: the finally clause; an exception of cleanup() is dropped
FinallyCleanup(outcome, cleanup_raises) == outcome

\* lines 142-168, for a request and config that parsed
RunHandler(data, config, cache, beh) ==
    LET r == GetHandlerInstance(cache, data.handler_module, data.handler_class)
        key == CacheKey(data.handler_module, data.handler_class)
        failed(tag) == SockResp(TRUE, "ERROR", <<"Python handler failed", tag>>, TRUE,
                                Absent, FALSE, TRUE)
    IN
    IF ~r.found
    THEN ExecOutcome(FALSE, "", failed("ImportError"), r.cache,
                     [NoLog EXCEPT !.failure = "resolve", !.built = failed("ImportError")])
    ELSE IF beh.construct_raises
    THEN FinallyCleanup(
           ExecOutcome(FALSE, "", failed("ConstructError"), r.cache,
                       [resolved |-> TRUE, calls |-> <<"construct", "cleanup">>,
                        failure |-> "construct", returned |-> NoSockResp,
                        built |-> failed("ConstructError"),
                        cleanup_raised |-> beh.cleanup_raises]),
           beh.cleanup_raises)
    ELSE LET c2 == [r.cache EXCEPT ![key].config = config]
             built == IF beh.execute_raises THEN failed("ExecuteError")
                      ELSE Normalise(beh.result)
         IN  FinallyCleanup(
               ExecOutcome(FALSE, "", built, c2,
                           [resolved |-> TRUE,
                            calls |-> <<"construct", "execute", "cleanup">>,
                            failure |-> IF beh.execute_raises THEN "execute" ELSE "",
                            returned |-> IF beh.execute_raises THEN NoSockResp
                                         ELSE beh.result,
                            built |-> built, cleanup_raised |-> beh.cleanup_raises]),
               beh.cleanup_raises)

\* handle_execute (lines 129-168)
HandleExecute(data, cache, beh) ==
    LET rj == IF data.request_json = Absent THEN "{}" ELSE data.request_json
        cj == IF data.config_json = Absent THEN "{}" ELSE data.config_json
        invalid == SockResp(TRUE, "ERROR", <<"Invalid JSON input">>, FALSE, Absent,
                            FALSE, TRUE)
    IN
    IF rj = NonString THEN ExecOutcome(TRUE, "TypeError", NoSockResp, cache, NoLog)
    ELSE IF ~JsonValid(rj) THEN ExecOutcome(FALSE, "", invalid, cache, NoLog)
    ELSE IF cj = NonString THEN ExecOutcome(TRUE, "TypeError", NoSockResp, cache, NoLog)
    ELSE IF ~JsonValid(cj) THEN ExecOutcome(FALSE, "", invalid, cache, NoLog)
    ELSE RunHandler(data, JsonLoads(cj), cache, beh)

\* variant of PongResponse: the health check also drops the cached handlers
PongResponseResetsCache(cache) ==
    ExecOutcome(FALSE, "", SockResp(TRUE, "pong", <<>>, FALSE, Absent, TRUE, TRUE),
                EmptyMap, NoLog)

\* lines 175-180
PongResponse(cache) ==
    ExecOutcome(FALSE, "", SockResp(TRUE, "pong", <<>>, FALSE, Absent, TRUE, TRUE),
                cache, NoLog)

\* variant of UnknownCommand: the message does not name the command
UnknownCommandUnnamed(command, cache) ==
    ExecOutcome(FALSE, "",
                SockResp(TRUE, "ERROR", <<"Unknown command">>, FALSE, Absent, FALSE, TRUE),
                cache, NoLog)

\* line 186
UnknownCommand(command, cache) ==
    ExecOutcome(FALSE, "",
                SockResp(TRUE, "ERROR", <<"Unknown command", command>>, FALSE,
                         Absent, FALSE, TRUE), cache, NoLog)

\* handle_request (lines 171-186)
HandleRequest(data, cache, beh) ==
    LET command == IF data.command = Absent THEN "" ELSE data.command IN
    IF data.kind # "dict"
    THEN ExecOutcome(TRUE, "AttributeError", NoSockResp, cache, NoLog)
    ELSE IF command = "ping" THEN PongResponse(cache)
    ELSE IF command = "execute" THEN HandleExecute(data, cache, beh)
    ELSE IF command = "shutdown"
    THEN ExecOutcome(FALSE, "", SockResp(TRUE, "shutdown_ack", <<>>, FALSE, Absent,
                                         FALSE, TRUE), cache, NoLog)
    ELSE UnknownCommand(command, cache)

-----------------------------------------------------------------------------
(* Socket binding: the accept loop and handle_connection *)

NoConn ==
    [open |-> FALSE, stream |-> NoStream, remaining |-> 0, got |-> 0,
     prefix_recvs |-> 0, payload_recvs |-> 0, decoded |-> FALSE, data |-> Unread,
     response |-> NoSockResp, exc |-> "", out |-> <<>>, send_failed |-> FALSE,
     retval |-> TRUE]

\* variant of CanAccept: connections are accepted while one is being served,
\* as a server that hands each connection to its own thread would
CanAcceptWhileServing == server.running /\ server.pc # "stopped"

\* lines 269-273: accept() is called at the top of the loop, after
\* handle_connection has returned
CanAccept == server.pc = "accept" /\ server.running

\* lines 270-273: accept a connection
Accept ==
    /\ CanAccept
    /\ server.conns < MaxConns
    /\ \E st \in Streams :
         conn' = [NoConn EXCEPT !.open = TRUE, !.stream = st]
    /\ server' = [server EXCEPT !.pc = "read_prefix", !.conns = @ + 1]
    /\ exec_log' = NoLog
    /\ UNCHANGED worker_cache
    /\ UNCHANGED <<rpcVars, flat>>

\* lines 193-200: the length prefix
ReadPrefix ==
    LET st == conn.stream
        msg_len == UnpackU32(st.prefix)
    IN
    /\ server.pc = "read_prefix"
    /\ IF st.first < 4 \/ LengthRejected(msg_len)
       THEN /\ conn' = [conn EXCEPT !.prefix_recvs = @ + 1, !.data = ReadNone,
                                    !.retval = TRUE]
            /\ server' = [server EXCEPT !.pc = "close"]
       ELSE /\ conn' = [conn EXCEPT !.prefix_recvs = @ + 1, !.remaining = msg_len]
            /\ server' = [server EXCEPT !.pc = "read_payload"]
    /\ UNCHANGED <<worker_cache, exec_log>>
    /\ UNCHANGED <<rpcVars, flat>>

\* lines 201-207 and 219-221: one recv of the payload loop; after the last
\* one the payload is decoded
ReadPayload ==
    LET st == conn.stream
        chunk == Min(Min(conn.remaining, RecvBuf), Min(st.mtu, st.avail - conn.got))
    IN
    /\ server.pc = "read_payload"
    /\ IF chunk = 0
       THEN /\ conn' = [conn EXCEPT !.payload_recvs = @ + 1, !.data = ReadNone,
                                    !.retval = TRUE]
            /\ server' = [server EXCEPT !.pc = "close"]
       ELSE IF conn.remaining - chunk > 0
       THEN /\ conn' = [conn EXCEPT !.payload_recvs = @ + 1, !.got = @ + chunk,
                                    !.remaining = @ - chunk]
            /\ UNCHANGED server
       ELSE IF st.doc.kind = "malformed"
       THEN /\ conn' = [conn EXCEPT !.payload_recvs = @ + 1, !.got = @ + chunk,
                                    !.remaining = 0, !.exc = "JSONDecodeError"]
            /\ server' = [server EXCEPT !.pc = "except"]
       ELSE IF JsonLoadsPayload(st.doc) = ReadNone
       THEN /\ conn' = [conn EXCEPT !.payload_recvs = @ + 1, !.got = @ + chunk,
                                    !.remaining = 0, !.decoded = TRUE,
                                    !.data = JsonLoadsPayload(st.doc), !.retval = TRUE]
            /\ server' = [server EXCEPT !.pc = "close"]
       ELSE /\ conn' = [conn EXCEPT !.payload_recvs = @ + 1, !.got = @ + chunk,
                                    !.remaining = 0, !.decoded = TRUE,
                                    !.data = JsonLoadsPayload(st.doc)]
            /\ server' = [server EXCEPT !.pc = "dispatch"]
    /\ UNCHANGED <<worker_cache, exec_log>>
    /\ UNCHANGED <<rpcVars, flat>>

\* line 223
Dispatch ==
    /\ server.pc = "dispatch"
    /\ \E beh \in Behaviours :
         LET o == HandleRequest(conn.data, worker_cache, beh) IN
         /\ worker_cache' = o.cache
         /\ exec_log' = o.log
         /\ IF o.raised
            THEN /\ conn' = [conn EXCEPT !.exc = o.exc]
                 /\ server' = [server EXCEPT !.pc = "except"]
            ELSE /\ conn' = [conn EXCEPT !.response = o.response]
                 /\ server' = [server EXCEPT !.pc = "write"]
    /\ UNCHANGED <<rpcVars, flat>>

\* variant of KeepRunning: only the commands the worker knows keep it
\* running
KeepRunningKnownOnly(data) == data.command \in {"ping", "execute"}

\* lines 226-229: what handle_connection returns after the response is sent
KeepRunning(data) == data.command # "shutdown"

\* lines 224-229: write_message and the shutdown check
Write ==
    /\ server.pc = "write"
    /\ IF ~conn.response.serializable
       THEN /\ conn' = [conn EXCEPT !.exc = "TypeError"]
            /\ server' = [server EXCEPT !.pc = "except"]
       ELSE \E sent \in BOOLEAN :
            IF sent
            THEN /\ conn' = [conn EXCEPT !.out = Append(@, conn.response),
                                         !.retval = KeepRunning(conn.data)]
                 /\ server' = [server EXCEPT !.pc = "close",
                                             !.answered = Append(@, server.conns)]
            ELSE /\ conn' = [conn EXCEPT !.exc = "BrokenPipeError", !.send_failed = TRUE]
                 /\ server' = [server EXCEPT !.pc = "except"]
    /\ UNCHANGED <<worker_cache, exec_log>>
    /\ UNCHANGED <<rpcVars, flat>>

\* lines 231-236
ExceptWrite ==
    /\ server.pc = "except"
    /\ \E sent \in BOOLEAN :
         conn' = IF sent
                 THEN [conn EXCEPT !.out = Append(@, SockResp(TRUE, "ERROR", <<conn.exc>>,
                                                      FALSE, Absent, FALSE, TRUE)),
                                   !.retval = TRUE]
                 ELSE [conn EXCEPT !.send_failed = TRUE, !.retval = TRUE]
    /\ server' = [server EXCEPT !.pc = "close",
                                !.answered = IF Len(conn'.out) > Len(conn.out)
                                             THEN Append(@, server.conns) ELSE @]
    /\ UNCHANGED <<worker_cache, exec_log>>
    /\ UNCHANGED <<rpcVars, flat>>

\* lines 237-238 and 273: conn.close(), and `running` takes the value returned
Close ==
    /\ server.pc = "close"
    /\ conn' = [conn EXCEPT !.open = FALSE]
    /\ server' = [server EXCEPT !.pc = "accept", !.running = conn.retval,
                                !.closed = @ + 1]
    /\ UNCHANGED <<worker_cache, exec_log>>
    /\ UNCHANGED <<rpcVars, flat>>

\* line 282: the loop has ended
ServerClose ==
    /\ server.pc = "accept"
    /\ ~server.running
    /\ server' = [server EXCEPT !.pc = "stopped"]
    /\ UNCHANGED <<conn, worker_cache, exec_log>>
    /\ UNCHANGED <<rpcVars, flat>>

-----------------------------------------------------------------------------
(* TransformPythonHandler.compute, operation JSON_FLATTEN *)

FlattenKeys == {"a", "b"}

\* dicts of at most two entries and lists of one or two elements over values
DictsOver(values) ==
    {PyDict(<<>>, <<>>)}
      \cup {PyDict(<<k>>, <<v>>) : k \in FlattenKeys, v \in values}
      \cup {PyDict(<<"a", "b">>, <<v, w>>) : v \in values, w \in values}

ListsOver(values) ==
    {PyList(<<v>>) : v \in values} \cup {PyList(<<v, w>>) : v \in values, w \in values}

RECURSIVE JsonValues(_)

\* the JSON values with at most `depth` levels of dicts and lists
JsonValues(depth) ==
    IF depth = 0 THEN {PyInt(1)}
    ELSE JsonValues(depth - 1) \cup DictsOver(JsonValues(depth - 1))
            \cup ListsOver(JsonValues(depth - 1))

\* payload["data"] of a JSON_FLATTEN request: a dict
FlattenInputs == DictsOver(JsonValues(MaxNesting - 1))

NoFlat == [data |-> PyDict(<<>>, <<>>), done |-> FALSE, result |-> EmptyMap]

\* lines 53 and 71-73: data is flattened and the operation's name added to
\* the result
ComputeJsonFlatten ==
    /\ ~flat.done
    /\ flat' = [flat EXCEPT !.done = TRUE,
                            !.result = DictSet(JsonFlatten(flat.data, ""), "operation",
                                               "JSON_FLATTEN")]
    /\ UNCHANGED <<rpcVars, sockVars>>

-----------------------------------------------------------------------------
(* Specifications *)

\* the state after construction, for a caller's tally and the data of a
\* JSON_FLATTEN request
InitBut(tally, inputs) ==
    /\ handler_cache = EmptyMap
    /\ sys_modules = EmptyMap
    /\ requests_handled = 0
    /\ errors = 0
    /\ frame = [t \in Threads |-> InitFrame]
    /\ heap = EmptyMap
    /\ calls = 0
    /\ server = [pc |-> "accept", running |-> TRUE, conns |-> 0, closed |-> 0,
                 answered |-> <<>>]
    /\ conn = NoConn
    /\ worker_cache = EmptyMap
    /\ exec_log = NoLog
    /\ responses = tally
    /\ flat \in inputs

Init == InitBut(NoTally, {NoFlat})

\* one caller: calls run one at a time, over all inputs
NextRpc ==
    \/ Call("t1", ClassNames, RequestTexts, PropsTexts)
    \/ Lifecycle("t1")
    \/ Ping("t1")

SpecRpc == Init /\ [][NextRpc]_vars

\* the callback server's threads call concurrently
NextConc ==
    \E t \in Threads :
        \/ Call(t, ConcNames, ConcRequestTexts, ConcPropsTexts)
        \/ Lifecycle(t)
        \/ Ping(t)

SpecConc == Init /\ [][NextConc]_vars

\* the worker process: one thread accepts and serves connections in turn
NextSock ==
    \/ Accept
    \/ ReadPrefix
    \/ ReadPayload
    \/ Dispatch
    \/ Write
    \/ ExceptWrite
    \/ Close
    \/ ServerClose

SpecSock == Init /\ [][NextSock]_vars

\* a process is either the Py4J gateway (dg_gateway.py) or the socket worker
\* (dgfacade_worker.py): whichever binding has started is the one that runs
NextEither ==
    \/ /\ server.conns = 0
       /\ \/ Call("t1", ClassNames, EitherRequestTexts, EitherPropsTexts)
          \/ Lifecycle("t1")
          \/ Ping("t1")
    \/ (calls = 0 /\ (\A t \in Threads : frame[t] = InitFrame) /\ NextSock)

SpecEither == Init /\ [][NextEither]_vars

\* one caller that reads the counters between its calls
NextStats ==
    \/ Call("t1", ClassNames, StatsRequestTexts, StatsPropsTexts)
    \/ Lifecycle("t1")
    \/ GetStats("t1")

InitStats == InitBut(StartTally, {NoFlat})

SpecStats == InitStats /\ [][NextStats]_vars

\* a JSON_FLATTEN request: compute() applied to a payload's data
InitFlatten == InitBut(NoTally, {[NoFlat EXCEPT !.data = d] : d \in FlattenInputs})

NextFlatten == ComputeJsonFlatten

SpecFlatten == InitFlatten /\ [][NextFlatten]_vars

-----------------------------------------------------------------------------
(* Properties of the RPC binding *)

Returned(t) == frame[t].pc = "returned"

HasInstance(t) == frame[t].handler_instance # 0

StopCalls(t) == heap[frame[t].handler_instance].stop_calls

\* C1: executeHandler never lets an exception out and, once it has returned,
\* has produced exactly one response, whose status is SUCCESS or ERROR;
\* before it returns no response exists.
C1_OneResponseNoException ==
    \A t \in Threads :
        /\ frame[t].pc # "raised"
        /\ Returned(t) => frame[t].ret.status \in {"SUCCESS", "ERROR"}
        /\ ~Returned(t) => frame[t].ret = NoResponse

\* C1 witness: a call has returned an ERROR response although start() raised
\* and the stop() of the except branch raised too.
C1_Witness ==
    \E t \in Threads :
        /\ Returned(t)
        /\ HasInstance(t)
        /\ frame[t].ret.status = "ERROR"
        /\ frame[t].exc = "ValueError"
        /\ Len(StopCalls(t)) = 1
        /\ StopCalls(t)[1].raised

\* C3: when a call that constructed a handler instance has returned, stop()
\* has been invoked on that instance exactly once.
C3_StopExactlyOnce ==
    \A t \in Threads :
        (Returned(t) /\ HasInstance(t)) => Len(StopCalls(t)) = 1

\* C4: when a stop() invocation raised, the response the call returns is the
\* one that had been built and was passed to that stop().
C4_StopFailureKeepsResponse ==
    \A t \in Threads :
        (Returned(t) /\ HasInstance(t)) =>
            \A i \in 1..Len(StopCalls(t)) :
                StopCalls(t)[i].raised => frame[t].ret = StopCalls(t)[i].arg

\* C8: the instance a call works on was constructed by that call, no other
\* call holds it, and the properties and request stored in it are that call's.
C8_InstancePerCall ==
    \A t \in Threads :
        HasInstance(t) =>
            LET f == frame[t]
                inst == heap[f.handler_instance]
            IN  /\ f.handler_instance = f.call
                /\ \A u \in Threads \ {t} : frame[u].handler_instance # f.handler_instance
                /\ inst.app_properties = f.app_props
                /\ inst.request \in {PyNone, f.request_dict}

\* C8 witness: two calls are inside the lifecycle at once, each with an instance
\* of the same class, and their requests differ.
C8_Witness ==
    \E t, u \in Threads :
        /\ t # u
        /\ frame[t].pc \in {"execute", "stop"}
        /\ frame[u].pc \in {"execute", "stop"}
        /\ frame[t].handler_class = frame[u].handler_class
        /\ frame[t].request_dict # frame[u].request_dict

\* C9: once every call begun has returned, requestsHandled + errors equals the
\* number of calls.
C9_NoLostUpdate ==
    (\A t \in Threads : frame[t].pc \in {"idle", "returned"}) =>
        requests_handled + errors = calls

\* C10: callers that resolved the same identifier hold the same class, and
\* once _load_class has returned a class to a caller the cache holds that
\* class under the identifier.
C10_ConcurrentResolveSafe ==
    /\ \A t, u \in Threads :
          (/\ frame[t].handler_class # NoClass
           /\ frame[u].handler_class # NoClass
           /\ frame[t].name = frame[u].name)
              => frame[t].handler_class = frame[u].handler_class
    /\ \A t \in Threads :
          frame[t].handler_class # NoClass =>
              /\ frame[t].name \in DOMAIN handler_cache
              /\ handler_cache[frame[t].name] = frame[t].handler_class
    /\ \A n \in DOMAIN handler_cache : n \in ClassNames

\* C10 witness: two threads have both missed the cache for the same identifier
\* and both are about to write the entry.
C10_Witness ==
    \E t, u \in Threads :
        /\ t # u
        /\ frame[t].pc = "cache_write"
        /\ frame[u].pc = "cache_write"
        /\ frame[t].name = frame[u].name

\* C11: a returned ERROR response carries the requestId of the request text
\* when that text parsed to a map holding one, and "unknown" when the request
\* text did not parse.
C11_ErrorCarriesRequestId ==
    \A t \in Threads :
        (Returned(t) /\ frame[t].ret.status = "ERROR") =>
            LET text == frame[t].dg_request_json IN
            IF JsonValid(text)
            THEN (JsonLoads(text).t = "dict" /\ JsonLoads(text).requestId # Absent)
                    => frame[t].ret.requestId = JsonLoads(text).requestId
            ELSE frame[t].ret.requestId = "unknown"

\* C11 witness: the properties text failed to parse after the request text
\* had parsed, and the ERROR response returned carries the request's id.
C11_Witness ==
    \E t \in Threads :
        /\ Returned(t)
        /\ frame[t].ret.status = "ERROR"
        /\ frame[t].exc = "JSONDecodeError"
        /\ frame[t].app_props = Unbound
        /\ frame[t].dg_request_json = "{\"requestId\": \"r1\"}"
        /\ frame[t].ret.requestId = "r1"

\* C16: a cache entry, once present, is never removed and never changes; an
\* entry is written only for an identifier that has none; and a resolution
\* that finds the entry returns the cached class without importing. The
\* worker's cache likewise keeps every key and the object filed under it.
C16_CacheAppendOnly ==
    [][/\ \A n \in DOMAIN handler_cache :
             n \in DOMAIN handler_cache' /\ handler_cache'[n] = handler_cache[n]
       /\ \A t \in Threads :
             (frame[t].pc = "cache_write" /\ frame'[t].pc # "cache_write")
                => frame[t].name \notin DOMAIN handler_cache
       /\ \A t \in Threads :
             (/\ frame[t].pc = "load"
              /\ frame[t].name \in DOMAIN handler_cache
              /\ frame'[t] # frame[t])
                => /\ frame'[t].pc = "construct"
                   /\ frame'[t].handler_class = handler_cache[frame[t].name]
                   /\ sys_modules' = sys_modules
       /\ \A key \in DOMAIN worker_cache :
             key \in DOMAIN worker_cache' /\ worker_cache'[key].cls = worker_cache[key].cls
      ]_vars

\* the edges of the documented lifecycle of a handler instance
LifecycleEdge(a, b) ==
    \/ <<a, b>> \in {<<"CREATED", "STARTING">>, <<"STARTING", "READY">>,
                      <<"READY", "EXECUTING">>, <<"EXECUTING", "STOPPING">>,
                      <<"STOPPING", "STOPPED">>}
    \/ (b = "FAILED" /\ a \in {"STARTING", "READY", "EXECUTING", "STOPPING"})

\* C18: every change of an instance's status is an edge of the documented
\* lifecycle: CREATED, STARTING, READY, EXECUTING, STOPPING, STOPPED in that
\* order, or a move to FAILED from a state after CREATED.
C18_LifecycleEdges ==
    \A id \in DOMAIN heap :
        LET log == heap[id].status_log IN
        \A i \in 1..(Len(log) - 1) : LifecycleEdge(log[i], log[i + 1])

\* C19: a TransformPythonHandler dispatch whose request has no 'operation' in
\* its payload never reaches execute(): the instance's status is never
\* EXECUTING, and the call returns an ERROR response whose errorCode is
\* ValueError and whose requestId is the request's.
C19_MissingOperationFailsInStart ==
    \A t \in Threads :
        (/\ frame[t].name = TransformName
         /\ frame[t].request_dict.t = "dict"
         /\ frame[t].app_props # Unbound
         /\ frame[t].request_dict.operation = Absent)
            => /\ frame[t].pc \notin {"execute", "stop", "count_read", "count_write"}
               /\ HasInstance(t) =>
                     \A i \in 1..Len(heap[frame[t].handler_instance].status_log) :
                         heap[frame[t].handler_instance].status_log[i] # "EXECUTING"
               /\ Returned(t) =>
                     /\ HasInstance(t)
                     /\ frame[t].ret.status = "ERROR"
                     /\ frame[t].ret.errorCode = "ValueError"
                     /\ frame[t].ret.requestId = GetRequestId(frame[t].request_dict, "unknown")

\* C19 witness: a transform request with a payload that has text but no
\* operation has returned ERROR / ValueError with the request's id, the
\* instance having gone from READY to STOPPED.
C19_Witness ==
    \E t \in Threads :
        /\ Returned(t)
        /\ frame[t].name = TransformName
        /\ frame[t].dg_request_json = "{\"requestId\": \"r1\", \"payload\": {\"text\": \"a\"}}"
        /\ frame[t].ret.status = "ERROR"
        /\ frame[t].ret.errorCode = "ValueError"
        /\ frame[t].ret.requestId = "r1"
        /\ heap[frame[t].handler_instance].status_log
              = <<"CREATED", "STARTING", "READY", "STOPPED">>

\* the operation of the request is one TransformPythonHandler.compute does
\* not know
UnknownOperation(t) ==
    /\ frame[t].name = TransformName
    /\ frame[t].request_dict.t = "dict"
    /\ frame[t].app_props # Unbound
    /\ frame[t].request_dict.operation \notin (SupportedOperations \cup {Absent})

\* C22: a TransformPythonHandler dispatch whose operation is none of the seven
\* supported names returns an ERROR response whose message holds every
\* supported operation name; the exception of compute() does not reach the
\* except branch of executeHandler, and stop() ran once, with that response.
C22_UnknownOperation ==
    \A t \in Threads :
        UnknownOperation(t) =>
            /\ frame[t].pc \notin {"except", "err_write", "except_stop", "raised"}
            /\ frame[t].exc = ""
            /\ Returned(t) =>
                  /\ frame[t].ret.status = "ERROR"
                  /\ frame[t].ret.errorCode = "ValueError"
                  /\ \A op \in SupportedOperations :
                        \E i \in 1..Len(frame[t].ret.errorMessage) :
                            frame[t].ret.errorMessage[i] = op
                  /\ HasInstance(t)
                  /\ Len(StopCalls(t)) = 1
                  /\ StopCalls(t)[1].arg = frame[t].ret

\* C22 witness: the request with operation FOO has returned ERROR /
\* ValueError, the instance having failed in execute() and then been stopped.
C22_Witness ==
    \E t \in Threads :
        /\ Returned(t)
        /\ frame[t].name = TransformName
        /\ frame[t].dg_request_json = "{\"payload\": {\"operation\": \"FOO\"}}"
        /\ frame[t].ret.status = "ERROR"
        /\ frame[t].ret.errorMessage[2] = "FOO"
        /\ heap[frame[t].handler_instance].status_log
              = <<"CREATED", "STARTING", "READY", "EXECUTING", "FAILED", "STOPPED">>

\* C27: the counters getStats reports, read when no call is in progress,
\* match the responses returned so far: errors is the number of
\* executeHandler calls that returned status ERROR, requestsHandled the number
\* that returned status SUCCESS.
C27_CountersMatchResponses ==
    \A t \in Threads :
        (/\ frame[t].stats.reported
         /\ \A u \in Threads : frame[u].pc \in {"idle", "returned", "raised"})
            => /\ frame[t].stats.errors = responses.ERROR
               /\ frame[t].stats.requestsHandled = responses.SUCCESS

-----------------------------------------------------------------------------
(* Properties of the socket binding *)

Served == ~conn.open /\ conn.prefix_recvs > 0

DeclaredLen == UnpackU32(conn.stream.prefix)

CompleteFrame ==
    /\ conn.stream.first = 4
    /\ DeclaredLen >= 1
    /\ DeclaredLen <= 50 * 1024 * 1024
    /\ conn.stream.avail >= DeclaredLen

ShutdownAck == SockResp(TRUE, "shutdown_ack", <<>>, FALSE, Absent, FALSE, TRUE)

\* C13: at most one connection is open at any moment, a connection is accepted
\* only when every earlier one has been closed, and the answers written are
\* in the order in which their connections were accepted.
C13_OneAtATime ==
    /\ server.conns - server.closed \in {0, 1}
    /\ conn.open <=> server.conns = server.closed + 1
    /\ server.pc = "accept" => server.conns = server.closed
    /\ \A i, j \in 1..Len(server.answered) :
          i < j => server.answered[i] < server.answered[j]
    /\ \A i \in 1..Len(server.answered) :
          /\ server.answered[i] <= server.conns
          /\ server.answered[i] = server.conns \/ server.answered[i] <= server.closed

\* C13 witness: three connections were accepted and closed in turn; the first
\* and the third were answered, the second was not.
C13_Witness ==
    /\ server.conns = 3
    /\ server.closed = 3
    /\ server.answered = <<1, 3>>

UnknownCommandDoc ==
    /\ conn.stream.doc.kind = "dict"
    /\ conn.stream.doc.command \notin {"ping", "execute", "shutdown"}

\* C15: dispatching an envelope whose command is not ping, execute or
\* shutdown (or is missing) yields an ERROR response whose message names the
\* command received, resolves and calls no handler and leaves the cache as it
\* was; and closing that connection leaves the server running.
C15_UnknownCommand ==
    [][/\ (server.pc = "dispatch" /\ UnknownCommandDoc)
             => /\ conn'.response.status = "ERROR"
                /\ conn'.response.error_message =
                      <<"Unknown command",
                        IF conn.stream.doc.command = Absent THEN ""
                        ELSE conn.stream.doc.command>>
                /\ exec_log' = NoLog
                /\ worker_cache' = worker_cache
                /\ server'.pc = "write"
       /\ (server.pc = "close" /\ UnknownCommandDoc /\ conn.decoded)
             => (server'.running /\ server'.pc = "accept")
      ]_vars

\* C15 witness: a connection that sent the command "restart" was answered
\* with the ERROR naming it, and the server is back at accept, running.
C15_Witness ==
    /\ Served
    /\ conn.stream.doc = RestartDoc
    /\ Len(conn.out) = 1
    /\ conn.out[1].status = "ERROR"
    /\ conn.out[1].error_message = <<"Unknown command", "restart">>
    /\ server.pc = "accept"
    /\ server.running

\* handle_execute returned the map its handler's execute() returned
ReturnedMap ==
    /\ exec_log.resolved
    /\ exec_log.failure = ""
    /\ exec_log.returned.isdict
    /\ conn.response # NoSockResp

\* C20: the response for a map returned by execute() has the handler's status,
\* or SUCCESS when it gave none; the handler's data, or, when it gave none, an
\* empty map exactly when the resulting status is SUCCESS; and every other key
\* as the handler left it.
C20_ResultNormalised ==
    ReturnedMap =>
        LET r == exec_log.returned
            b == conn.response
        IN  /\ b.status = (IF r.status = Absent THEN "SUCCESS" ELSE r.status)
            /\ r.data # Absent => b.data = r.data
            /\ r.data = Absent => (b.data = "{}" <=> b.status = "SUCCESS")
            /\ r.data = Absent => (b.data = Absent <=> b.status # "SUCCESS")
            /\ (r.status = "ERROR" /\ r.data = Absent) => "data" \notin SockKeys(b)
            /\ b.error_message = r.error_message
            /\ b.traceback = r.traceback
            /\ b.pong = r.pong

\* C20 witness: a handler returned a map with neither status nor data, and
\* the frame written carries status SUCCESS and an empty data map.
C20_Witness ==
    /\ ReturnedMap
    /\ exec_log.returned.status = Absent
    /\ exec_log.returned.data = Absent
    /\ Len(conn.out) = 1
    /\ conn.out[1].status = "SUCCESS"
    /\ conn.out[1].data = "{}"

\* a handler's ERROR result without data has been written as it was returned
C20_ErrorKeptWithoutData ==
    /\ ReturnedMap
    /\ exec_log.returned.status = "ERROR"
    /\ Len(conn.out) = 1
    /\ conn.out[1] = exec_log.returned

\* the bytes on conn are those write_message produces for a document
WrittenByWriteMessage ==
    /\ conn.stream.doc.kind # "malformed"
    /\ conn.stream.prefix = PackU32(PayloadLen(conn.stream.doc))
    /\ conn.stream.first = 4
    /\ conn.stream.avail = PayloadLen(conn.stream.doc)

\* C21: read_message, applied to the bytes write_message produces for a
\* document M, returns a value equal to M that is not the value it returns at
\* the end of the stream.
C21_RoundTrip ==
    (WrittenByWriteMessage /\ conn.data # Unread)
        => (conn.data = conn.stream.doc /\ conn.data # ReadNone)

\* C24: whatever pieces the transport hands the bytes of a valid frame over
\* in, prefix and payload alike, read_message returns the document of the
\* frame; when the stream ends before the declared length has arrived it
\* returns None and raises nothing.
C24_ChunkingIndependent ==
    (conn.data # Unread \/ conn.exc # "") =>
        /\ (/\ conn.stream.first >= 1
            /\ ~LengthRejected(DeclaredLen)
            /\ conn.stream.avail >= DeclaredLen
            /\ conn.stream.doc.kind # "malformed")
              => conn.data = JsonLoadsPayload(conn.stream.doc)
        /\ (/\ conn.stream.first = 4
            /\ ~LengthRejected(DeclaredLen)
            /\ conn.stream.avail < DeclaredLen)
              => (conn.data = ReadNone /\ conn.exc = "")

\* C25: a connection that delivered a complete frame of valid length whose
\* payload is not a JSON document, or is a JSON document other than a map, is
\* closed after one attempt to send one ERROR frame: the ERROR frame is the
\* only frame written, or the send failed and nothing was written; in both
\* cases handle_connection returned True.
C25_BestEffortError ==
    (Served /\ CompleteFrame /\ conn.stream.doc.kind # "dict") =>
        /\ conn.retval = TRUE
        /\ IF conn.send_failed
           THEN conn.out = <<>>
           ELSE Len(conn.out) = 1 /\ conn.out[1].status = "ERROR"

\* C26: the accept loop stops only after a connection whose decoded command
\* was shutdown and whose acknowledgment was written; after a connection that
\* carried anything else (ping, execute with any outcome of the handler, an
\* unknown command, a malformed, oversized or truncated frame)
\* handle_connection has returned True and the server is at accept() again.
C26_OnlyShutdownStops ==
    /\ ~server.running =>
          /\ conn.data.kind = "dict"
          /\ conn.data.command = "shutdown"
          /\ Len(conn.out) = 1
          /\ conn.out[1].status = "shutdown_ack"
    /\ (Served /\ conn.stream.doc.command # "shutdown") =>
          /\ conn.retval = TRUE
          /\ server.running
          /\ server.pc = "accept"

\* C26 witness: a connection whose execute command ended in an exception of
\* the handler's execute() has been closed after an earlier connection, and
\* the server is still running, at accept().
C26_Witness ==
    /\ Served
    /\ server.closed >= 2
    /\ conn.stream.doc.command = "execute"
    /\ exec_log.failure = "execute"
    /\ server.running
    /\ server.pc = "accept"

\* C2: a connection that delivered a complete frame of valid length whose
\* payload is a JSON document, and whose peer took what was sent, has been
\* answered with exactly one frame after exactly one frame was read.
C2_OneResponsePerFrame ==
    (/\ Served
     /\ CompleteFrame
     /\ conn.stream.doc.kind # "malformed"
     /\ ~conn.send_failed)
        => (Len(conn.out) = 1 /\ conn.prefix_recvs = 1)

\* C5: after handle_execute ran with a resolved handler, cleanup() was called
\* once, as the last call on the handler, nothing was raised out of
\* handle_execute, and the response is the result built before cleanup().
C5_CleanupOnceLast ==
    exec_log.resolved =>
        LET c == exec_log.calls IN
        /\ c[Len(c)] = "cleanup"
        /\ Cardinality({i \in 1..Len(c) : c[i] = "cleanup"}) = 1
        /\ conn.response = exec_log.built
        /\ conn.exc \in {"", "TypeError", "BrokenPipeError"}

\* C5 witness: construct() raised, cleanup() raised as well, and the response
\* is still the ERROR result of the except branch.
C5_Witness ==
    /\ exec_log.resolved
    /\ exec_log.cleanup_raised
    /\ exec_log.calls = <<"construct", "cleanup">>
    /\ conn.response.status = "ERROR"
    /\ conn.response.traceback

\* C6: after a connection whose decoded command was shutdown, the
\* acknowledgment has been written and the loop no longer runs; and the loop
\* never stops without the acknowledgment written.
C6_ShutdownStopsLoop ==
    /\ (/\ Served
        /\ conn.decoded
        /\ conn.stream.doc.command = "shutdown")
           => (conn.out = <<ShutdownAck>> /\ ~server.running)
    /\ ~server.running => conn.out = <<ShutdownAck>>

\* C7: with a prefix of 0 or above 50 MiB no payload byte is read, nothing is
\* written and the connection is closed; a prefix of exactly 50 MiB goes on
\* to read the payload.
C7_LengthCap ==
    (conn.prefix_recvs > 0 /\ conn.stream.first = 4) =>
        /\ (DeclaredLen = 0 \/ DeclaredLen > 50 * 1024 * 1024) =>
              /\ conn.payload_recvs = 0
              /\ conn.got = 0
              /\ conn.out = <<>>
              /\ (server.pc = "close" \/ ~conn.open)
        /\ DeclaredLen = 50 * 1024 * 1024 =>
              (server.pc = "read_payload" \/ conn.payload_recvs > 0)

\* C7 witness: a connection whose prefix was 50 MiB + 1 has been closed with
\* nothing read after the prefix and nothing written.
C7_Witness ==
    /\ Served
    /\ conn.stream.first = 4
    /\ DeclaredLen = 50 * 1024 * 1024 + 1
    /\ conn.payload_recvs = 0
    /\ conn.out = <<>>

\* a frame of exactly 50 MiB has been read to its end and answered
C7_CapAccepted ==
    /\ Served
    /\ DeclaredLen = 50 * 1024 * 1024
    /\ conn.got = 50 * 1024 * 1024
    /\ Len(conn.out) = 1

-----------------------------------------------------------------------------
(* Properties of both bindings *)

ExecuteDoc == conn.stream.doc.kind = "dict" /\ conn.stream.doc.command = "execute"

\* handle_request has returned a response for the frame read from conn
Answered == conn.response # NoSockResp

\* request_json or config_json of the execute envelope is not a JSON text
InboundParseFailed ==
    LET d == conn.stream.doc
        rj == IF d.request_json = Absent THEN "{}" ELSE d.request_json
        cj == IF d.config_json = Absent THEN "{}" ELSE d.config_json
    IN  rj # NonString /\ cj # NonString /\ (~JsonValid(rj) \/ ~JsonValid(cj))

\* the keys under which a response of the worker could carry the error kind
ErrorKindKeys == {"error_code", "errorCode", "error_type", "error_kind"}

\* C12: an execute dispatch that failed because handler code raised, an
\* inbound JSON field did not parse or the handler did not resolve, has
\* produced an ERROR response holding an error kind, a message and the trace
\* text: in the socket binding as keys of the response dict, in the RPC
\* binding as errorCode, errorMessage and stackTrace.
C12_ErrorNormalization ==
    /\ (ExecuteDoc /\ Answered /\ (InboundParseFailed \/ exec_log.failure # ""))
          => /\ conn.response.status = "ERROR"
             /\ {"error_message", "traceback"} \subseteq SockKeys(conn.response)
             /\ ErrorKindKeys \cap SockKeys(conn.response) # {}
    /\ \A t \in Threads :
          (frame[t].pc = "returned" /\ (frame[t].exc # "" \/ frame[t].ret.status = "ERROR"))
             => /\ frame[t].ret.status = "ERROR"
                /\ frame[t].ret.errorCode # Absent
                /\ frame[t].ret.errorMessage # Absent
                /\ frame[t].ret.stackTrace # Absent

\* C14: a ping step yields a pong (socket: a response whose keys are status,
\* timestamp and worker_id, with status "pong"; RPC: the string "pong"),
\* resolves and calls no handler, and leaves the handler cache, the imported
\* modules and the request and error counters as they were.
C14_PingIsPure ==
    [][/\ (server.pc = "dispatch" /\ conn.stream.doc.kind = "dict"
                                  /\ conn.stream.doc.command = "ping")
             => /\ conn'.response.status = "pong"
                /\ SockKeys(conn'.response) = {"status", "timestamp", "worker_id"}
                /\ exec_log' = NoLog
                /\ worker_cache' = worker_cache
                /\ server'.pc = "write"
                /\ server'.running
       /\ \A t \in Threads :
             (frame'[t] # frame[t] /\ frame'[t].pong = "pong")
                => /\ frame'[t].pc = "idle"
                   /\ handler_cache' = handler_cache
                   /\ sys_modules' = sys_modules
                   /\ requests_handled' = requests_handled
                   /\ errors' = errors
                   /\ calls' = calls
                   /\ \A id \in DOMAIN heap' : id \in DOMAIN heap /\ heap'[id] = heap[id]
      ]_vars

\* C14 witness: ping has answered "pong" after one call succeeded and another
\* failed.
C14_Witness ==
    \E t \in Threads :
        /\ frame[t].pong = "pong"
        /\ errors >= 1
        /\ requests_handled >= 1
        /\ handler_cache # EmptyMap

\* a ping frame has been answered on a connection that followed an execute
\* which had cached a handler
C14_SocketPingAfterExecute ==
    /\ conn.stream.doc = PingDoc
    /\ conn.response.status = "pong"
    /\ Len(conn.out) = 1
    /\ worker_cache # EmptyMap

\* an identifier _load_class can resolve: module.path.ClassName with the
\* module importable and the class defined in it
Resolvable(name) ==
    /\ Len(RSplit(name)) = 2
    /\ RSplit(name)[1] \in InstalledModules
    /\ RSplit(name)[2][1] \in ModuleClasses(RSplit(name)[1])

\* C17: a dispatch whose identifier does not resolve never changes the
\* handler cache, never gets an entry for the identifier, never constructs
\* or calls a handler, goes through resolution on every attempt and ends in
\* an ERROR response (RPC: with errorCode ImportError once the request parsed
\* to a map and the properties parsed).
C17_ResolutionFailure ==
    [][/\ \A t \in Threads :
             (frame'[t].pc # "idle" /\ ~Resolvable(frame'[t].name))
                => /\ handler_cache' = handler_cache
                   /\ frame'[t].name \notin DOMAIN handler_cache'
                   /\ frame'[t].handler_instance = 0
                   /\ frame'[t].call \notin DOMAIN heap'
                   /\ frame'[t].pc \in {"load", "import", "except", "err_write",
                                        "except_stop", "returned"}
                   /\ frame'[t].pc = "returned"
                         => /\ frame'[t].ret.status = "ERROR"
                            /\ (frame'[t].request_dict.t = "dict"
                                  /\ frame'[t].app_props # Unbound)
                                  => frame'[t].ret.errorCode = "ImportError"
       /\ (/\ server.pc = "dispatch"
           /\ ExecuteDoc
           /\ ~InboundParseFailed
           /\ conn.stream.doc.request_json # NonString
           /\ conn.stream.doc.handler_class
                 \notin WorkerModuleClasses(conn.stream.doc.handler_module))
             => /\ exec_log'.failure = "resolve"
                /\ exec_log'.calls = <<>>
                /\ worker_cache' = worker_cache
                /\ CacheKey(conn.stream.doc.handler_module, conn.stream.doc.handler_class)
                      \notin DOMAIN worker_cache'
                /\ conn'.response.status = "ERROR"
      ]_vars

\* C17 witness: a second call for a class its module does not define has
\* returned ERROR, the module is imported and the cache is still empty.
C17_Witness ==
    \E t \in Threads :
        /\ Returned(t)
        /\ frame[t].name = NoClassName
        /\ frame[t].exc = "ImportError"
        /\ frame[t].ret.status = "ERROR"
        /\ frame[t].call >= 2
        /\ errors >= 2
        /\ RSplit(NoClassName)[1] \in DOMAIN sys_modules
        /\ handler_cache = EmptyMap

\* the worker has answered ERROR, a second connection running, to an execute
\* for a module that cannot be imported
C17_SocketResolveFailedTwice ==
    /\ server.conns >= 2
    /\ Len(server.answered) >= 2
    /\ exec_log.failure = "resolve"
    /\ conn.response.status = "ERROR"
    /\ worker_cache = EmptyMap

-----------------------------------------------------------------------------
(* Properties of the transform handler *)

RECURSIVE Leaves(_, _)

\* the leaves of a value, each with its path: `path.k` for the value under key
\* k of a map (k alone at the top), `path[i]` for element i of a sequence
Leaves(v, path) ==
    IF v.t = "dict"
    THEN UNION {Leaves(v.vals[i], IF path = "" THEN v.keys[i] ELSE path \o "." \o v.keys[i]) :
                   i \in 1..Len(v.keys)}
    ELSE IF v.t = "list"
    THEN UNION {Leaves(v.vals[i], path \o "[" \o ToString(i - 1) \o "]") :
                   i \in 1..Len(v.vals)}
    ELSE {<<path, v>>}

\* C23: the result of JSON_FLATTEN has, under `flattened`, one entry per leaf
\* of the data, keyed by the leaf's path and holding the leaf's value, and its
\* keyCount is the number of leaves.
C23_FlattenLeaves ==
    flat.done =>
        LET leaves == Leaves(flat.data, "")
            out == flat.result
        IN  /\ DOMAIN out.flattened = {e[1] : e \in leaves}
            /\ \A e \in leaves : out.flattened[e[1]] = e[2]
            /\ out.keyCount = PyInt(Cardinality(leaves))

====
